---- MODULE Spec2Model ----
(***************************************************************************)
(* Tagged dispatch of `anyhow!($expr)` (src/src/kind.rs).                  *)
(*                                                                         *)
(* The macro expands to                                                    *)
(*     let error = $msg;                                                   *)
(*     (&error).anyhow_kind().new(error)                                   *)
(* with AdhocKind, TraitKind and BoxedKind in scope.  The model follows    *)
(* one build of a program: the cfg flags are chosen once, then a bounded   *)
(* number of macro calls is made, each from a call site (a source line)    *)
(* with an input value of some type.  A call whose method resolution       *)
(* finds no kind trait, or two of them at the same probing step, does not  *)
(* compile: that build ends in "rejected".                                 *)
(***************************************************************************)
EXTENDS Integers, Sequences, FiniteSets, TLC

\* ------------------------------------------------------------ bounds
MaxCalls == 2
MaxLine == 2

\* ------------------------------------------------------------ values
None == <<>>
Some(x) == <<x>>

Lines == 1..MaxLine
CallerLocation(line) == [file |-> "caller.rs", line |-> line]
\* a location recorded inside the conversion path, not at the caller
ConvLocation == [file |-> "convert.rs", line |-> 1]

Texts == {"disk full", "E1"}
Objects == {"obj1", "obj2"}
Sources == {None, Some("E2")}
InputBacktraces == {None, Some("bt_E")}
Captured == "captured"

\* Types of `$msg`: a base type under `refs` layers of `&'static`.
BaseTypes == {"str", "StdErr", "BoxDynErr", "Error", "Opaque"}
Ty(base, refs) == [base |-> base, refs |-> refs]
AddRef(ty) == [ty EXCEPT !.refs = @ + 1]
Deref(ty) == [ty EXCEPT !.refs = @ - 1]

VARIABLES
    track_caller,      \* cfg(track_caller)
    has_backtrace,     \* the backtrace facility behind backtrace!()
    has_std,           \* cfg(feature = "std")
    boxed_into_error,  \* whether the crate's conversions cover Box<dyn StdError + Send + Sync>
    pc,                \* position of the current macro call
    input,             \* the value bound to `error` by the macro
    site,              \* source line of the current macro call
    tag,               \* the tag returned by anyhow_kind()
    backtrace,         \* the local `backtrace` of Boxed::new
    error,             \* the Error under construction or returned
    log,               \* operations performed by the current call, in order
    recorded,          \* <<site, location>> of every error returned so far
    calls              \* number of macro calls started

vars == <<track_caller, has_backtrace, has_std, boxed_into_error, pc, input, site,
          tag, backtrace, error, log, recorded, calls>>

flags == <<track_caller, has_backtrace, has_std, boxed_into_error>>

\* ------------------------------------------------------------ trait bounds
\* T: Display + Debug + Send + Sync + 'static
DisplayDebugSendSyncStatic(ty) == ty.base \in {"str", "StdErr", "BoxDynErr", "Error"}

\* T: StdError + Send + Sync + 'static (a shared reference to a std error is one too)
StdErrorSendSyncStatic(ty) == has_std /\ ty.base = "StdErr"

\* T is Box<dyn StdError + Send + Sync>
IsBoxDynStdError(ty) == ty = Ty("BoxDynErr", 0)

\* T: Into<Error>
IntoError(ty) ==
    \/ ty = Ty("Error", 0)
    \/ StdErrorSendSyncStatic(ty)
    \/ IsBoxDynStdError(ty) /\ boxed_into_error

\* ------------------------------------------------------------ kind traits
\* impl<T> AdhocKind for &T where T: ?Sized + Display + Debug + Send + Sync + 'static
AdhocKind(Self) == Self.refs >= 1 /\ DisplayDebugSendSyncStatic(Deref(Self))

TraitKind_StdErrorOnly(Self) == StdErrorSendSyncStatic(Self)
\* impl<E> TraitKind for E where E: Into<Error>
TraitKind(Self) == IntoError(Self)

BoxedKind_Absent(Self) == FALSE
\* #[cfg(feature = "std")] impl BoxedKind for Box<dyn StdError + Send + Sync>
BoxedKind(Self) == has_std /\ IsBoxDynStdError(Self)

Tags == {"Adhoc", "Trait", "Boxed"}

\* the kind traits whose anyhow_kind(&self) accepts a receiver of type &Self
Candidates(Self) ==
    {t \in Tags : \/ t = "Adhoc" /\ AdhocKind(Self)
                  \/ t = "Trait" /\ TraitKind(Self)
                  \/ t = "Boxed" /\ BoxedKind(Self)}

\* the bounds of the tag's `new`, checked on the argument type
NewAccepts(t, ty) ==
    \/ t = "Adhoc" /\ DisplayDebugSendSyncStatic(ty)
    \/ t = "Trait" /\ IntoError(ty)
    \/ t = "Boxed" /\ IsBoxDynStdError(ty)

Pick(cands, ty) ==
    IF Cardinality(cands) > 1 THEN "ambiguous"
    ELSE LET t == CHOOSE x \in cands : TRUE
         IN IF NewAccepts(t, ty) THEN t ELSE "mismatch"

\* `(&error).anyhow_kind()` for error: ty.  Method probing tries the receiver
\* &ty by value (Self = ty), then with one autoref (Self = &ty); the first
\* step with an applicable method decides, and two applicable traits at one
\* step are an ambiguity error.
anyhow_kind(ty) ==
    LET byValue == Candidates(ty)
        autoref == Candidates(AddRef(ty))
    IN IF byValue # {} THEN Pick(byValue, ty)
       ELSE IF autoref # {} THEN Pick(autoref, ty)
       ELSE "unresolved"

\* ------------------------------------------------------------ inputs
\* what a value of the type reports through Display, source() and backtrace()
Value(ty, text, source, bt, location, object) ==
    [type |-> ty, text |-> text, source |-> source, backtrace |-> bt,
     location |-> location, object |-> object]

InputTypes == {Ty(b, r) : b \in BaseTypes, r \in {0, 1}}

TypeExists(ty) == has_std \/ ty.base \notin {"StdErr", "BoxDynErr"}

ValuesOf(ty) ==
    LET structured == ty.base \in {"StdErr", "BoxDynErr", "Error"}
        srcs == IF structured THEN Sources ELSE {None}
        bts == IF structured THEN InputBacktraces ELSE {None}
        locs == IF ty.base = "Error" /\ track_caller
                THEN {Some(CallerLocation(l)) : l \in Lines}
                ELSE {None}
    IN {Value(ty, t, s, b, l, o) : t \in Texts, s \in srcs, b \in bts, l \in locs, o \in Objects}

\* ------------------------------------------------------------ Error and its sink
\* The unified Error: its Display text, its source(), the backtrace it stores,
\* the backtrace the wrapped object reports, its location, the wrapped object.
MakeError(text, source, bt, object_bt, location, object) ==
    [text |-> text, source |-> source, backtrace |-> bt,
     object_backtrace |-> object_bt, location |-> location, object |-> object]

\* Error::backtrace(): the stored one, or else the wrapped object's
Error_backtrace(e) == IF e.backtrace # None THEN e.backtrace ELSE e.object_backtrace

\* Error::from_adhoc(message, backtrace, location)
from_adhoc(message, bt, location) ==
    MakeError(message.text, None, bt, None, location, message.object)

\* Error::from_boxed(error, backtrace, location)
from_boxed(err, bt, location) ==
    MakeError(err.text, err.source, bt, err.backtrace, location, err.object)

\* the locations the Into conversion may leave on its result: it is not
\* #[track_caller], so never the caller's
ConversionLocations == IF track_caller THEN {None, Some(ConvLocation)} ELSE {None}

\* <E as Into<Error>>::into(error): the reflexive conversion for an Error,
\* the From<E: StdError> conversion otherwise.  A set: one result per outcome.
into(err) ==
    IF err.type = Ty("Error", 0)
    THEN {MakeError(err.text, err.source, err.backtrace, None, err.location, err.object)}
    ELSE {MakeError(err.text, err.source, None, err.backtrace, l, err.object) :
            l \in ConversionLocations}

\* Error::set_location(location)
set_location(e, location) == [e EXCEPT !.location = location]

\* backtrace!()
backtrace_macro == IF has_backtrace THEN Some(Captured) ELSE None

\* backtrace_if_absent!(&*error)
backtrace_if_absent(err) == IF err.backtrace # None THEN None ELSE backtrace_macro

\* ------------------------------------------------------------ constructors
\* #[cfg(track_caller)] Location::caller(), in a #[track_caller] function
\* called from `line`; the argument is absent when tracking is off
Location_caller(line) == IF track_caller THEN Some(CallerLocation(line)) ELSE None

Adhoc_new_Untracked(message, line) == from_adhoc(message, backtrace_macro, None)
Adhoc_new_WithSource(message, line) ==
    [from_adhoc(message, backtrace_macro, Location_caller(line)) EXCEPT !.source = message.source]
\* Adhoc::new(self, message)
Adhoc_new(message, line) == from_adhoc(message, backtrace_macro, Location_caller(line))

Trait_new_into_Recapture(err) == {[e EXCEPT !.backtrace = backtrace_macro] : e \in into(err)}
Trait_new_into_Rewrap(err) ==
    {MakeError(err.text, Some(err.text), None, err.backtrace, None, err.object)}
\* Trait::new, first statement: let mut error: Error = error.into();
Trait_new_into(err) == into(err)

Trait_new_set_location_Skipped(e, line) == e
\* Trait::new, second statement: #[cfg(track_caller)] error.set_location(Location::caller());
Trait_new_set_location(e, line) ==
    IF track_caller THEN set_location(e, Location_caller(line)) ELSE e

Boxed_new_backtrace_Always(err) == backtrace_macro
\* Boxed::new, first statement: let backtrace = backtrace_if_absent!(&*error);
Boxed_new_backtrace(err) == backtrace_if_absent(err)

\* Boxed::new, second statement: Error::from_boxed(error, backtrace, Location::caller())
Boxed_new_from_boxed(err, bt, line) == from_boxed(err, bt, Location_caller(line))

\* ------------------------------------------------------------ log
Event(op, e) == [op |-> op, location |-> e.location]
Ops(l) == [i \in 1..Len(l) |-> l[i].op]
Count(l, ops) == Cardinality({i \in 1..Len(l) : l[i].op \in ops})
Index(l, op) == IF \E i \in 1..Len(l) : l[i].op = op
                THEN CHOOSE i \in 1..Len(l) : l[i].op = op
                ELSE 0
SinkOps == {"from_adhoc", "into", "from_boxed"}
NoError == None

\* ------------------------------------------------------------ state machine
Init ==
    /\ track_caller \in BOOLEAN
    /\ has_backtrace \in BOOLEAN
    /\ has_std \in BOOLEAN
    /\ boxed_into_error \in (IF has_std THEN BOOLEAN ELSE {FALSE})
    /\ pc = "idle"
    /\ input = None
    /\ site = 1
    /\ tag = "none"
    /\ backtrace = None
    /\ error = NoError
    /\ log = <<>>
    /\ recorded = {}
    /\ calls = 0

\* anyhow!($msg) at source line `line`: let error = $msg;
Call(ty, v, line) ==
    /\ pc = "idle"
    /\ calls < MaxCalls
    /\ TypeExists(ty)
    /\ v \in ValuesOf(ty)
    /\ calls' = calls + 1
    /\ input' = Some(v)
    /\ site' = line
    /\ pc' = "call"
    /\ tag' = "none"
    /\ backtrace' = None
    /\ error' = NoError
    /\ log' = <<>>
    /\ UNCHANGED <<flags, recorded>>

\* (&error).anyhow_kind(), resolved when the call is compiled
Resolve ==
    /\ pc = "call"
    /\ LET k == anyhow_kind(input[1].type)
       IN IF k \in Tags
          THEN tag' = k /\ pc' = "resolved"
          ELSE tag' = "none" /\ pc' = "rejected"
    /\ UNCHANGED <<flags, input, site, backtrace, error, log, recorded, calls>>

Returned(e) == recorded' = recorded \cup {<<site, e.location>>}

\* Adhoc.new(error)
AdhocNew ==
    /\ pc = "resolved" /\ tag = "Adhoc"
    /\ LET e == Adhoc_new(input[1], site)
       IN /\ error' = Some(e)
          /\ log' = log \o (IF backtrace_macro # None
                            THEN <<[op |-> "capture", location |-> None]>> ELSE <<>>)
                        \o <<Event("from_adhoc", e)>>
          /\ Returned(e)
    /\ pc' = "done"
    /\ UNCHANGED <<flags, input, site, tag, backtrace, calls>>

\* Trait.new(error), up to the conversion
TraitInto ==
    /\ pc = "resolved" /\ tag = "Trait"
    /\ \E e \in Trait_new_into(input[1]) :
          /\ error' = Some(e)
          /\ log' = Append(log, Event("into", e))
    /\ pc' = "converted"
    /\ UNCHANGED <<flags, input, site, tag, backtrace, recorded, calls>>

\* Trait.new(error), the stamp and the return
TraitSetLocation ==
    /\ pc = "converted"
    /\ LET e == Trait_new_set_location(error[1], site)
       IN /\ error' = Some(e)
          /\ log' = IF track_caller THEN Append(log, Event("set_location", e)) ELSE log
          /\ Returned(e)
    /\ pc' = "done"
    /\ UNCHANGED <<flags, input, site, tag, backtrace, calls>>

\* Boxed.new(error), the query of the boxed object's backtrace
BoxedQuery ==
    /\ pc = "resolved" /\ tag = "Boxed"
    /\ backtrace' = Boxed_new_backtrace(input[1])
    /\ log' = log \o <<[op |-> "backtrace()", location |-> None]>>
                  \o (IF backtrace' # None
                      THEN <<[op |-> "capture", location |-> None]>> ELSE <<>>)
    /\ pc' = "queried"
    /\ UNCHANGED <<flags, input, site, tag, error, recorded, calls>>

\* Boxed.new(error), the move into the sink and the return
BoxedFromBoxed ==
    /\ pc = "queried"
    /\ LET e == Boxed_new_from_boxed(input[1], backtrace, site)
       IN /\ error' = Some(e)
          /\ log' = Append(log, Event("from_boxed", e))
          /\ Returned(e)
    /\ pc' = "done"
    /\ UNCHANGED <<flags, input, site, tag, backtrace, calls>>

\* the statement ends: the Error goes to the caller, the locals are gone
Return ==
    /\ pc = "done"
    /\ pc' = "idle"
    /\ input' = None
    /\ site' = 1
    /\ tag' = "none"
    /\ backtrace' = None
    /\ error' = NoError
    /\ log' = <<>>
    /\ UNCHANGED <<flags, recorded, calls>>

Next ==
    \/ \E ty \in InputTypes, line \in Lines : \E v \in ValuesOf(ty) : Call(ty, v, line)
    \/ Resolve
    \/ AdhocNew
    \/ TraitInto
    \/ TraitSetLocation
    \/ BoxedQuery
    \/ BoxedFromBoxed
    \/ Return

Spec == Init /\ [][Next]_vars

\* ------------------------------------------------------------ properties
\* the three capability predicates, on the type of the input value
AdhocEligible(ty) == DisplayDebugSendSyncStatic(ty)
StructuredCauseEligible(ty) == IntoError(ty)
BoxedEligible(ty) == IsBoxDynStdError(ty)

Started == pc \notin {"idle", "call"}
Built == pc = "done"
in == input[1]
out == error[1]
HereLocation == Some(CallerLocation(site))

C2_ExactlyOneTagOneSinkCall ==
    /\ Count(log, SinkOps) <= 1
    /\ (/\ pc \in {"done", "rejected"}
        /\ \/ AdhocEligible(in.type)
           \/ StructuredCauseEligible(in.type)
           \/ BoxedEligible(in.type)) =>
            /\ tag \in Tags
            /\ Count(log, SinkOps) = 1
            /\ error # NoError

C5_TraitKeepsCauseAndBacktrace ==
    (Built /\ tag = "Trait") =>
        /\ out.source = in.source
        /\ Error_backtrace(out) = in.backtrace
        /\ Count(log, {"capture"}) = 0

C5_Witness ==
    /\ Built /\ tag = "Trait" /\ in.type = Ty("StdErr", 0)
    /\ in.source = Some("E2") /\ out.source = Some("E2")
    /\ in.backtrace = Some("bt_E") /\ Error_backtrace(out) = Some("bt_E")

\* C6: Boxed::new captures a backtrace exactly when the boxed input reports
\* none: a reported backtrace comes back unchanged with no capture; with none
\* reported the Error has a fresh one when the facility is on and none when it
\* is off.  The query comes before the box is moved into from_boxed.
C6_BoxedCapturesIffAbsent ==
    /\ pc = "queried" => error = NoError /\ Ops(log)[1] = "backtrace()"
    /\ (Built /\ tag = "Boxed") =>
        /\ 0 < Index(log, "backtrace()")
        /\ Index(log, "backtrace()") < Index(log, "from_boxed")
        /\ Count(log, {"capture"}) = (IF in.backtrace = None /\ has_backtrace THEN 1 ELSE 0)
        /\ in.backtrace # None => Error_backtrace(out) = in.backtrace /\ out.backtrace = None
        /\ (in.backtrace = None /\ has_backtrace) => Error_backtrace(out) = Some(Captured)
        /\ (in.backtrace = None /\ ~has_backtrace) => Error_backtrace(out) = None

C6_Witness ==
    /\ Built /\ tag = "Boxed" /\ has_backtrace
    /\ in.backtrace = None /\ Error_backtrace(out) = Some(Captured)

\* C7: with call-site tracking on, every constructor records the call site of
\* the construction, so errors built at distinct lines carry distinct
\* locations; with tracking off no error carries a location.  The flag never
\* changes.
C7_LocationIsCallSite ==
    /\ [][track_caller' = track_caller]_vars
    /\ [](/\ Built => out.location = (IF track_caller THEN HereLocation ELSE None)
          /\ \A a \in recorded, b \in recorded :
                /\ (track_caller /\ a[1] # b[1]) => a[2] # b[2]
                /\ ~track_caller => a[2] = None)

C7_Witness ==
    /\ track_caller /\ Built /\ tag = "Boxed"
    /\ \E a \in recorded, b \in recorded : a[1] # b[1] /\ a[2] # b[2] /\ a[2] # None

\* C8, as claimed: an input that satisfies none of the three predicates is
\* rejected with no tag, no sink call and no Error; an input that satisfies at
\* least one is never rejected.
C8_RejectedIffNoPredicate ==
    Started =>
        IF \/ AdhocEligible(in.type)
           \/ StructuredCauseEligible(in.type)
           \/ BoxedEligible(in.type)
        THEN pc # "rejected"
        ELSE pc = "rejected" /\ tag = "none" /\ log = <<>> /\ error = NoError

\* C9: in Trait::new with tracking on, the location is stamped after the
\* conversion; whatever the conversion left, the returned location is the
\* call site, and the stamp is the last write.
C9_TraitStampsAfterConversion ==
    (Built /\ tag = "Trait" /\ track_caller) =>
        /\ out.location = HereLocation
        /\ Ops(log) = <<"into", "set_location">>
        /\ log[Len(log)].location = HereLocation

C9_Witness ==
    /\ Built /\ tag = "Trait" /\ track_caller
    /\ log[1].op = "into" /\ log[1].location = Some(ConvLocation)
    /\ out.location = HereLocation

====
